---- MODULE Spec2Model ----
(***************************************************************************)
(* Model of src/lib/utils.js: the key search (_search and                  *)
(* Utilities.getDataFromObjectByField), the flattener (isIterable, flatten *)
(* and Utilities.getFlatArray) and the shallow field diff                  *)
(* (Utilities.compareFieldsInObjects).                                     *)
(*                                                                         *)
(* JavaScript values are records [t, id]: t is the result of typeof, id    *)
(* tells the values of one type apart.  Objects are compared by identity,  *)
(* so an object is its id and the heap maps ids to contents.  null is the  *)
(* value of type "object" with id 0.                                       *)
(***************************************************************************)
EXTENDS Integers, Sequences, FiniteSets, TLC

\* ------------------------------------------------------------------ bounds
\* objects in the graph handed to getDataFromObjectByField (root included)
MaxNodes == 3
\* key/value pairs in that graph, all objects together
MaxEdges == 4

\* arrays in the value handed to getFlatArray
MaxArrays == 3
\* elements of those arrays, all arrays together
MaxCells == 4
\* distinct objects among the values of the records handed to
\* compareFieldsInObjects
MaxRefs == 2

\* property names used in the graphs
SearchKeys == {"k", "a"}
\* property names used in the records of compareFieldsInObjects
DiffKeys == {"a", "b"}

VARIABLES
    phase,        \* "build": the caller makes the input; "run"; "done"
    obj,          \* heap: object id -> its own entries <<[k, v], ...>> in enumeration order
    used,         \* number of objects allocated so far
    root,         \* argument root of getDataFromObjectByField
    keyToSearch,  \* argument keyToSearch
    parents,      \* the Set parents
    results,      \* the array results
    stack,        \* activations of _search, innermost last
    status,       \* "none", "returned" or "raised": how the call ended
    enterLog,     \* history: the activations of _search, in order
    resLog,       \* history: where each element of results was appended
    fphase,       \* getFlatArray: "build", "run" or "done"
    arr,          \* heap of arrays: array id -> its elements
    aused,        \* number of arrays allocated so far
    list,         \* argument list of getFlatArray
    fstack,       \* the suspended flatten generators, innermost last
    out,          \* the array the spread of line 67 collects
    dphase,       \* compareFieldsInObjects: "build", "run" or "done"
    obj1,         \* argument obj1: its entries in enumeration order
    obj2,         \* argument obj2
    diff,         \* the local diff
    di            \* position of the for-of loop of line 171 in Object.entries(obj2)

searchVars == <<phase, obj, used, root, keyToSearch, parents, results, stack,
                status, enterLog, resLog>>
flatVars == <<fphase, arr, aused, list, fstack, out>>
diffVars == <<dphase, obj1, obj2, diff, di>>
vars == <<searchVars, flatVars, diffVars>>

SearchOnly == UNCHANGED <<flatVars, diffVars>>
FlatOnly == UNCHANGED <<searchVars, diffVars>>
DiffOnly == UNCHANGED <<searchVars, flatVars>>

\* ------------------------------------------------------------------ values
Ref(n) == [t |-> "object", id |-> n]
NullV == [t |-> "object", id |-> 0]
\* numbers: id 1 and 2 are the numbers 1 and 2, id 0 is +0, id -1 is -0 and
\* id -2 is NaN
NumV == [t |-> "number", id |-> 1]
Num2V == [t |-> "number", id |-> 2]
PosZeroV == [t |-> "number", id |-> 0]
NegZeroV == [t |-> "number", id |-> -1]
NaNV == [t |-> "number", id |-> -2]
UndefinedV == [t |-> "undefined", id |-> 0]
\* a primitive string: it has a Symbol.iterator method, its typeof is "string"
StrV == [t |-> "string", id |-> 1]
\* a plain object {}: typeof "object", no Symbol.iterator method
PlainV == [t |-> "object", id |-> -3]
\* an object with one own accessor property "g" whose getter throws:
\* Object.entries reads the property and throws, Object.keys does not
GetterV == [t |-> "object", id |-> -1]

typeof(v) == v.t

\* Object.entries(child): own enumerable [key, value] pairs, in order
objectEntries(child) == IF child = GetterV THEN <<>> ELSE obj[child.id]

\* Object.keys(v) of a non-null object (Object.keys(null) throws)
objectKeys(v) == IF v = GetterV THEN <<"g">>
                 ELSE [j \in 1..Len(obj[v.id]) |-> obj[v.id][j].k]

KeysIn(n) == {obj[n][j].k : j \in 1..Len(obj[n])}

EdgeCount == LET RECURSIVE Sum(_)
                 Sum(n) == IF n = 0 THEN 0 ELSE Len(obj[n]) + Sum(n - 1)
             IN Sum(MaxNodes)

\* ------------------------------------------------------------------ caller
\* The caller builds the object graph: obj[n][key] = v, where v is null, a
\* number, the object with the throwing getter, an object that exists already
\* or a new empty object.
AddPair(n, key, v) ==
    /\ SearchOnly
    /\ phase = "build"
    /\ n \in 1..used
    /\ key \notin KeysIn(n)
    /\ EdgeCount < MaxEdges
    /\ \/ v \in {NullV, NumV, GetterV}
       \/ v.t = "object" /\ v.id \in 1..used
       \/ v.t = "object" /\ v.id = used + 1 /\ used < MaxNodes
    /\ obj' = [obj EXCEPT ![n] = Append(@, [k |-> key, v |-> v])]
    /\ used' = IF v.t = "object" /\ v.id = used + 1 THEN used + 1 ELSE used
    /\ UNCHANGED <<phase, root, keyToSearch, parents, results, stack, status,
                   enterLog, resLog>>

Frame(v, len) == [child |-> v, i |-> 1, pc |-> "descend", mark |-> len]

\* Call with a visited set that starts empty (new Set() without .add(root))
Call_NoSeed(r, key) ==
    /\ SearchOnly
    /\ phase = "build"
    /\ root' = r
    /\ keyToSearch' = key
    /\ parents' = {}
    /\ results' = <<>>
    /\ resLog' = <<>>
    /\ IF typeof(r) = "object" /\ r # NullV
       THEN /\ stack' = <<Frame(r, 0)>>
            /\ enterLog' = <<[node |-> r.id, from |-> 0, at |-> 0]>>
            /\ phase' = "run"
            /\ status' = "none"
       ELSE /\ stack' = <<>>
            /\ enterLog' = <<>>
            /\ phase' = "done"
            /\ status' = "returned"
    /\ UNCHANGED <<obj, used>>

\* getDataFromObjectByField(root, keyToSearch), lines 78-81 (the return of
\* line 82 is LoopEnd on the outermost activation)
Call(r, key) ==
    /\ SearchOnly
    /\ phase = "build"
    /\ root' = r
    /\ keyToSearch' = key
    /\ parents' = {r}
    /\ results' = <<>>
    /\ resLog' = <<>>
    /\ IF typeof(r) = "object" /\ r # NullV
       THEN /\ stack' = <<Frame(r, 0)>>
            /\ enterLog' = <<[node |-> r.id, from |-> 0, at |-> 0]>>
            /\ phase' = "run"
            /\ status' = "none"
       ELSE /\ stack' = <<>>
            /\ enterLog' = <<>>
            /\ phase' = "done"
            /\ status' = "returned"
    /\ UNCHANGED <<obj, used>>

\* ----------------------------------------------------------------- _search
Top == stack[Len(stack)]
TopEntries == objectEntries(Top.child)
AtPair == phase = "run" /\ Top.child # GetterV /\ Top.i <= Len(TopEntries)
CurK == TopEntries[Top.i].k
CurV == TopEntries[Top.i].v

SetTop(f) == [stack EXCEPT ![Len(stack)] = f]
NextPair == [Top EXCEPT !.i = @ + 1, !.pc = "descend"]
Path == [d \in 1..Len(stack) |-> [node |-> stack[d].child.id, i |-> stack[d].i]]

\* line 35 false: v is not of type object, nothing happens for this pair
SkipPair ==
    /\ SearchOnly
    /\ AtPair /\ Top.pc = "descend"
    /\ typeof(CurV) # "object"
    /\ stack' = SetTop(NextPair)
    /\ UNCHANGED <<phase, obj, used, root, keyToSearch, parents, results,
                   status, enterLog, resLog>>

\* Descend without parents.add(v)
Descend_NoAdd ==
    /\ SearchOnly
    /\ AtPair /\ Top.pc = "descend"
    /\ typeof(CurV) = "object"
    /\ CurV # NullV /\ CurV \notin parents
    /\ stack' = Append(SetTop([Top EXCEPT !.pc = "match"]),
                       Frame(CurV, Len(results)))
    /\ enterLog' = Append(enterLog, [node |-> CurV.id, from |-> Top.child.id,
                                     at |-> Top.i])
    /\ UNCHANGED <<phase, obj, used, root, keyToSearch, parents, results,
                   status, resLog>>

\* Descend with the match test of lines 42-43 moved before the recursion
Descend_MatchFirst ==
    /\ SearchOnly
    /\ AtPair /\ Top.pc = "descend"
    /\ typeof(CurV) = "object"
    /\ CurV # NullV /\ CurV \notin parents
    /\ parents' = parents \cup {CurV}
    /\ IF keyToSearch = CurK
       THEN /\ results' = Append(results, objectKeys(CurV))
            /\ resLog' = Append(resLog, [node |-> Top.child.id, i |-> Top.i,
                                         path |-> Path])
            /\ stack' = Append(SetTop(NextPair), Frame(CurV, Len(results')))
       ELSE /\ UNCHANGED <<results, resLog>>
            /\ stack' = Append(SetTop([Top EXCEPT !.pc = "match"]),
                               Frame(CurV, Len(results)))
    /\ enterLog' = Append(enterLog, [node |-> CurV.id, from |-> Top.child.id,
                                     at |-> Top.i])
    /\ UNCHANGED <<phase, obj, used, root, keyToSearch, status>>

\* lines 35-39: v is an object, not null, not in parents: add it and recurse
Descend ==
    /\ SearchOnly
    /\ AtPair /\ Top.pc = "descend"
    /\ typeof(CurV) = "object"
    /\ CurV # NullV /\ CurV \notin parents
    /\ parents' = parents \cup {CurV}
    /\ stack' = Append(SetTop([Top EXCEPT !.pc = "match"]),
                       Frame(CurV, Len(results)))
    /\ enterLog' = Append(enterLog, [node |-> CurV.id, from |-> Top.child.id,
                                     at |-> Top.i])
    /\ UNCHANGED <<phase, obj, used, root, keyToSearch, results, status, resLog>>

\* NoDescend with the match test inside the parents check: a value that is
\* already in parents is passed over altogether
NoDescend_SkipMatch ==
    /\ SearchOnly
    /\ AtPair /\ Top.pc = "descend"
    /\ typeof(CurV) = "object"
    /\ ~(CurV # NullV /\ CurV \notin parents)
    /\ stack' = SetTop(IF CurV = NullV THEN [Top EXCEPT !.pc = "match"] ELSE NextPair)
    /\ UNCHANGED <<phase, obj, used, root, keyToSearch, parents, results,
                   status, enterLog, resLog>>

\* lines 35-36: v is null or already in parents: no recursion, on to line 42
NoDescend ==
    /\ SearchOnly
    /\ AtPair /\ Top.pc = "descend"
    /\ typeof(CurV) = "object"
    /\ ~(CurV # NullV /\ CurV \notin parents)
    /\ stack' = SetTop([Top EXCEPT !.pc = "match"])
    /\ UNCHANGED <<phase, obj, used, root, keyToSearch, parents, results,
                   status, enterLog, resLog>>

\* lines 42-43 without an exception: append Object.keys(v) when the key matches
Match ==
    /\ SearchOnly
    /\ AtPair /\ Top.pc = "match"
    /\ ~(keyToSearch = CurK /\ CurV = NullV)
    /\ IF keyToSearch = CurK
       THEN /\ results' = Append(results, objectKeys(CurV))
            /\ resLog' = Append(resLog, [node |-> Top.child.id, i |-> Top.i,
                                         path |-> Path])
       ELSE UNCHANGED <<results, resLog>>
    /\ stack' = SetTop(NextPair)
    /\ UNCHANGED <<phase, obj, used, root, keyToSearch, parents, status, enterLog>>

\* The activation on top of the stack ends and control is back in its caller:
\* after line 39 (or line 40, the empty catch) of the caller, or in
\* getDataFromObjectByField, which returns results or lets the exception out.
Leave(how) ==
    /\ SearchOnly
    /\ stack' = SubSeq(stack, 1, Len(stack) - 1)
    /\ IF Len(stack) = 1
       THEN phase' = "done" /\ status' = how
       ELSE UNCHANGED <<phase, status>>
    /\ UNCHANGED <<obj, used, root, keyToSearch, parents, results, enterLog, resLog>>

\* line 43 with v = null: Object.keys(null) throws a TypeError
Throw ==
    /\ AtPair /\ Top.pc = "match"
    /\ keyToSearch = CurK /\ CurV = NullV
    /\ Leave("raised")

\* line 34 with a getter that throws: Object.entries(child) throws
EntriesThrow ==
    /\ phase = "run" /\ Top.child = GetterV
    /\ Leave("raised")

\* line 34: no pair is left, _search returns
LoopEnd ==
    /\ phase = "run" /\ Top.child # GetterV /\ Top.i > Len(TopEntries)
    /\ Leave("returned")

\* ---------------------------------------------------------- specifications
InitSearchVars ==
    /\ phase = "build"
    /\ obj = [n \in 1..(MaxNodes) |-> <<>>]
    /\ used = 1
    /\ root = NullV
    /\ keyToSearch = "k"
    /\ parents = {}
    /\ results = <<>>
    /\ stack = <<>>
    /\ status = "none"
    /\ enterLog = <<>>
    /\ resLog = <<>>

InitFlatVars ==
    /\ fphase = "build"
    /\ arr = [n \in 1..MaxArrays |-> <<>>]
    /\ aused = 1
    /\ list = NullV
    /\ fstack = <<>>
    /\ out = <<>>

InitDiffVars ==
    /\ dphase = "build"
    /\ obj1 = <<>>
    /\ obj2 = <<>>
    /\ diff = <<>>
    /\ di = 1

\* one call of getDataFromObjectByField on a graph the caller built
InitSearch == InitSearchVars /\ InitFlatVars /\ InitDiffVars

Build == \E n \in 1..MaxNodes, key \in SearchKeys :
            \E v \in {NullV, NumV, GetterV} \cup {Ref(m) : m \in 1..MaxNodes} :
                AddPair(n, key, v)

CallSearch == \E r \in {Ref(1), NullV, NumV, GetterV}, key \in SearchKeys : Call(r, key)

NextSearch ==
    \/ Build
    \/ CallSearch
    \/ SkipPair
    \/ Descend
    \/ NoDescend
    \/ Match
    \/ Throw
    \/ EntriesThrow
    \/ LoopEnd

SpecSearch == InitSearch /\ [][NextSearch]_vars

\* ------------------------------------------------- isIterable, flatten
Arr(n) == [t |-> "object", id |-> n]
\* typeof obj[Symbol.iterator] === "function": arrays and strings have the method
HasIterator(v) == (typeof(v) = "object" /\ v.id >= 1) \/ typeof(v) = "string"

\* isIterable(obj), lines 17-24
isIterable(v) ==
    IF v = NullV \/ v = UndefinedV THEN FALSE
    ELSE IF typeof(v) = "object" /\ HasIterator(v) THEN TRUE
    ELSE FALSE

CellCount == LET RECURSIVE Sum(_)
                 Sum(n) == IF n = 0 THEN 0 ELSE Len(arr[n]) + Sum(n - 1)
             IN Sum(MaxArrays)

\* The caller builds the nested arrays: arr[n].push(v), where v is a leaf, an
\* array made after array n (the nesting has no cycle) or a new empty array.
Push(n, v) ==
    /\ FlatOnly
    /\ fphase = "build"
    /\ n \in 1..aused
    /\ CellCount < MaxCells
    /\ \/ v \in {NumV, Num2V, NullV, StrV, PlainV}
       \/ v.t = "object" /\ v.id \in (n + 1)..aused
       \/ v.t = "object" /\ v.id = aused + 1 /\ aused < MaxArrays
    /\ arr' = [arr EXCEPT ![n] = Append(@, v)]
    /\ aused' = IF v.t = "object" /\ v.id = aused + 1 THEN aused + 1 ELSE aused
    /\ UNCHANGED <<fphase, list, fstack, out>>

\* getFlatArray(list), lines 66-69: spread flatten(list), or return []
CallFlat(l) ==
    /\ FlatOnly
    /\ fphase = "build"
    /\ list' = l
    /\ out' = <<>>
    /\ IF isIterable(l)
       THEN fstack' = <<[it |-> l, i |-> 1]>> /\ fphase' = "run"
       ELSE fstack' = <<>> /\ fphase' = "done"
    /\ UNCHANGED <<arr, aused>>

FTop == fstack[Len(fstack)]
FAtValue == fphase = "run" /\ FTop.i <= Len(arr[FTop.it.id])
FValue == arr[FTop.it.id][FTop.i]
FAdvance == [fstack EXCEPT ![Len(fstack)].i = @ + 1]

\* flatten that yields a nested iterable itself instead of its leaves
FlatRecurse_Shallow ==
    /\ FlatOnly
    /\ FAtValue /\ isIterable(FValue)
    /\ out' = Append(out, FValue)
    /\ fstack' = FAdvance
    /\ UNCHANGED <<fphase, arr, aused, list>>

\* line 28: the value is iterable, yield* flatten(value)
FlatRecurse ==
    /\ FlatOnly
    /\ FAtValue /\ isIterable(FValue)
    /\ fstack' = Append(FAdvance, [it |-> FValue, i |-> 1])
    /\ UNCHANGED <<fphase, arr, aused, list, out>>

\* line 29: yield value, which the spread of line 67 appends
FlatYield ==
    /\ FlatOnly
    /\ FAtValue /\ ~isIterable(FValue)
    /\ out' = Append(out, FValue)
    /\ fstack' = FAdvance
    /\ UNCHANGED <<fphase, arr, aused, list>>

\* line 27: the iterable is exhausted, the generator returns
FlatReturn ==
    /\ FlatOnly
    /\ fphase = "run" /\ FTop.i > Len(arr[FTop.it.id])
    /\ fstack' = SubSeq(fstack, 1, Len(fstack) - 1)
    /\ fphase' = IF Len(fstack) = 1 THEN "done" ELSE fphase
    /\ UNCHANGED <<arr, aused, list, out>>

BuildFlat == \E n \in 1..MaxArrays :
                \E v \in {NumV, Num2V, NullV, StrV, PlainV} \cup {Arr(m) : m \in 1..MaxArrays} :
                    Push(n, v)

CallGetFlatArray == \E l \in {Arr(1), NullV, UndefinedV, NumV, StrV, PlainV} : CallFlat(l)

NextFlat ==
    \/ BuildFlat
    \/ CallGetFlatArray
    \/ FlatRecurse
    \/ FlatYield
    \/ FlatReturn

\* one call of getFlatArray on a value the caller built
InitFlat == InitSearchVars /\ InitFlatVars /\ InitDiffVars
SpecFlat == InitFlat /\ [][NextFlat]_vars

\* ------------------------------------------------ compareFieldsInObjects
IsZero(x) == x = PosZeroV \/ x = NegZeroV

\* x === y
objectIs_Strict(x, y) ==
    IF typeof(x) # typeof(y) THEN FALSE
    ELSE IF typeof(x) = "number"
         THEN IF x = NaNV \/ y = NaNV THEN FALSE
              ELSE IF IsZero(x) /\ IsZero(y) THEN TRUE
              ELSE x.id = y.id
    ELSE x.id = y.id

\* x == y
objectIs_Loose(x, y) ==
    IF x \in {NullV, UndefinedV} /\ y \in {NullV, UndefinedV} THEN TRUE
    ELSE objectIs_Strict(x, y)

\* Object.is(x, y), the SameValue comparison (lines 11 and 172)
objectIs(x, y) ==
    IF typeof(x) # typeof(y) THEN FALSE
    ELSE IF typeof(x) = "number"
         THEN IF x = NaNV /\ y = NaNV THEN TRUE
              ELSE IF x = PosZeroV /\ y = NegZeroV THEN FALSE
              ELSE IF x = NegZeroV /\ y = PosZeroV THEN FALSE
              ELSE x.id = y.id
    ELSE x.id = y.id

HasKey(o, key) == \E j \in 1..Len(o) : o[j].k = key
\* o[key]: the value of the property, undefined when o has none
Get(o, key) == IF HasKey(o, key)
               THEN o[CHOOSE j \in 1..Len(o) : o[j].k = key].v
               ELSE UndefinedV
\* o[key] = v
Set(o, key, v) == IF HasKey(o, key)
                  THEN [j \in 1..Len(o) |-> IF o[j].k = key THEN [k |-> key, v |-> v] ELSE o[j]]
                  ELSE Append(o, [k |-> key, v |-> v])

DiffValues == {NaNV, PosZeroV, NegZeroV, NumV, UndefinedV, NullV}
                  \cup {Ref(n) : n \in 1..MaxRefs}

\* The caller builds the two flat records.
PutBase(key, v) ==
    /\ DiffOnly
    /\ dphase = "build" /\ ~HasKey(obj1, key)
    /\ obj1' = Append(obj1, [k |-> key, v |-> v])
    /\ UNCHANGED <<dphase, obj2, diff, di>>

PutUpdated(key, v) ==
    /\ DiffOnly
    /\ dphase = "build" /\ ~HasKey(obj2, key)
    /\ obj2' = Append(obj2, [k |-> key, v |-> v])
    /\ UNCHANGED <<dphase, obj1, diff, di>>

\* compareFieldsInObjects(obj1, obj2), line 170
CallDiff ==
    /\ DiffOnly
    /\ dphase = "build"
    /\ dphase' = "run"
    /\ diff' = <<>>
    /\ di' = 1
    /\ UNCHANGED <<obj1, obj2>>

\* lines 171-172: the values are the same, continue
DiffContinue ==
    /\ DiffOnly
    /\ dphase = "run" /\ di <= Len(obj2)
    /\ objectIs(Get(obj1, obj2[di].k), obj2[di].v)
    /\ di' = di + 1
    /\ UNCHANGED <<dphase, obj1, obj2, diff>>

\* lines 171-173: the values differ, diff[key] = value
DiffAssign ==
    /\ DiffOnly
    /\ dphase = "run" /\ di <= Len(obj2)
    /\ ~objectIs(Get(obj1, obj2[di].k), obj2[di].v)
    /\ diff' = Set(diff, obj2[di].k, obj2[di].v)
    /\ di' = di + 1
    /\ UNCHANGED <<dphase, obj1, obj2>>

\* line 175
DiffReturn ==
    /\ DiffOnly
    /\ dphase = "run" /\ di > Len(obj2)
    /\ dphase' = "done"
    /\ UNCHANGED <<obj1, obj2, diff, di>>

BuildBase == \E key \in DiffKeys, v \in DiffValues : PutBase(key, v)
BuildUpdated == \E key \in DiffKeys, v \in DiffValues : PutUpdated(key, v)

NextDiff ==
    \/ BuildBase
    \/ BuildUpdated
    \/ CallDiff
    \/ DiffContinue
    \/ DiffAssign
    \/ DiffReturn

\* one call of compareFieldsInObjects on two records the caller built
InitDiff == InitSearchVars /\ InitFlatVars /\ InitDiffVars
SpecDiff == InitDiff /\ [][NextDiff]_vars

\* ------------------------------------------------- claims on the key search
Composite(v) == typeof(v) = "object" /\ v # NullV
Done == phase = "done"
Entered == {enterLog[j].node : j \in 1..Len(enterLog)}
PairsOf(n) == 1..Len(obj[n])
\* the pairs of the graph whose value is the object v
EdgesTo(v) == {<<m, j>> \in (1..used) \X (1..MaxEdges) : j \in PairsOf(m) /\ obj[m][j].v = v}
\* the value of the pair at which element j of results was appended
ResTarget(j) == obj[resLog[j].node][resLog[j].i].v
GetterInGraph == EdgesTo(GetterV) # {}
\* plain data shaped as a tree: every object but the root has one parent
PlainTree == /\ root = Ref(1)
             /\ ~GetterInGraph
             /\ EdgesTo(Ref(1)) = {}
             /\ \A n \in 2..used : Cardinality(EdgesTo(Ref(n))) = 1
\* the objects whose key in their parent is the target key
MatchNodes == {n \in 2..used : \E e \in EdgesTo(Ref(n)) : obj[e[1]][e[2]].k = keyToSearch}
OneEntryPerMatch ==
    /\ Len(results) = Cardinality(MatchNodes)
    /\ \A n \in MatchNodes : \E j \in 1..Len(results) :
           ResTarget(j) = Ref(n) /\ results[j] = objectKeys(Ref(n))

\* C1: on a finite tree of plain objects the call returns one entry per
\* object whose key in its parent is the target key, the entry being the
\* object's own key names in enumeration order; none missing, none extra.
C1_OneEntryPerMatchingNode ==
    (Done /\ PlainTree) => (status = "returned" /\ OneEntryPerMatch)

\* C2: getDataFromObjectByField never raises, whatever the root and the graph,
\* null values under the target key included.
C2_NeverRaises == status # "raised"

\* the steps an object takes once entered: two for each pair and the return
Weight(v) == 2 * Len(objectEntries(v)) + 1
Remaining(f) == IF f.child = GetterV THEN 1
                ELSE 2 * (Len(objectEntries(f.child)) - f.i + 1)
                     + (IF f.pc = "descend" THEN 1 ELSE 0)
RECURSIVE SumWeight(_)
\* the weight of the objects 1..n and of the getter object that are not in parents
SumWeight(n) ==
    IF n = 0 THEN (IF GetterV \in parents THEN 0 ELSE Weight(GetterV))
    ELSE (IF Ref(n) \in parents THEN 0 ELSE Weight(Ref(n))) + SumWeight(n - 1)
RECURSIVE SumRemaining(_)
SumRemaining(d) == IF d = 0 THEN 0 ELSE Remaining(stack[d]) + SumRemaining(d - 1)
Measure == SumWeight(used) + SumRemaining(Len(stack))
\* C3: the search terminates on every finite graph, cyclic or shared: each
\* step of a running search strictly decreases a measure that is a natural
\* number (the work left in the activations plus the work in the objects not
\* yet in parents), which holds because an object in parents is not entered
\* again.
C3_Terminates ==
    [][phase = "run" => (Measure' < Measure /\ Measure' >= 0)]_vars
\* a search over a graph with a cycle or a shared object has returned
C3_Witness ==
    /\ Done /\ Composite(root) /\ status = "returned"
    /\ \/ EdgesTo(Ref(1)) # {}
       \/ \E n \in 1..used : Cardinality(EdgesTo(Ref(n))) >= 2

\* the value of the pair that appended element j of results was entered
\* through that pair
EnteredThrough(j) ==
    \E e \in 1..Len(enterLog) :
        /\ enterLog[e].node = ResTarget(j).id
        /\ enterLog[e].from = resLog[j].node
        /\ enterLog[e].at = resLog[j].i
\* object n was being searched when element j of results was appended
OnPath(n, j) == \E d \in 1..Len(resLog[j].path) : resLog[j].path[d].node = n
\* C7: when the value of a pair was entered through that pair, every entry
\* appended while that value was being searched precedes the pair's own entry
\* (the descent is over when the match test runs); and what the pairs of one
\* object contribute comes in the object's enumeration order.
C7_DescendantsFirst ==
    /\ (AtPair /\ Top.pc = "match") =>
           \A e \in 1..Len(enterLog) :
               (enterLog[e].from = Top.child.id /\ enterLog[e].at = Top.i) =>
                   \A d \in 1..Len(stack) : stack[d].child.id # enterLog[e].node
    /\ \A j \in 1..Len(resLog) :
           EnteredThrough(j) =>
               \A m \in 1..Len(resLog) : OnPath(ResTarget(j).id, m) => m < j
    /\ \A j \in 1..Len(resLog) : \A m \in 1..Len(resLog) :
           j < m =>
               \A d \in 1..Len(resLog[j].path) : \A c \in 1..Len(resLog[m].path) :
                   resLog[j].path[d].node = resLog[m].path[c].node
                       => resLog[j].path[d].i <= resLog[m].path[c].i
\* an object under the target key was entered through its pair and something
\* inside it matched too
C7_Witness ==
    /\ Done
    /\ \E j \in 1..Len(resLog) : \E m \in 1..Len(resLog) :
           EnteredThrough(j) /\ OnPath(ResTarget(j).id, m) /\ m < j

\* C8: the visited set suppresses the descent only: when the search is over,
\* every pair of every entered object whose key is the target key and whose
\* value is a non-null object has its entry in results, whether or not the
\* value was already in parents; a root that is its own child under the
\* target key is entered once and reported.
C8_MatchNotSuppressed ==
    Done =>
        \A n \in Entered \ {GetterV.id} : \A i \in PairsOf(n) :
            (obj[n][i].k = keyToSearch /\ Composite(obj[n][i].v)) =>
                \E j \in 1..Len(results) :
                    /\ resLog[j].node = n /\ resLog[j].i = i
                    /\ results[j] = objectKeys(obj[n][i].v)
C8_Witness ==
    /\ Done /\ root = Ref(1)
    /\ \E i \in PairsOf(1) :
           /\ obj[1][i].k = keyToSearch /\ obj[1][i].v = root
           /\ \E j \in 1..Len(results) :
                  resLog[j].node = 1 /\ resLog[j].i = i /\ results[j] = objectKeys(root)
    /\ Cardinality({e \in 1..Len(enterLog) : enterLog[e].node = 1}) = 1

\* C9: when the descent into a child fails, the failure is swallowed at the
\* pair of the parent, the parent goes on with the match test of that pair,
\* and results is what it was when the descent began: nothing that was
\* appended inside the failed subtree is in it.
C9_FailedSubtreeLeavesNothing ==
    [][(phase = "run" /\ Len(stack) > 1 /\ (Throw \/ EntriesThrow)) =>
          /\ phase' = "run"
          /\ stack' = SubSeq(stack, 1, Len(stack) - 1)
          /\ stack'[Len(stack')].pc = "match"
          /\ Len(results') = Top.mark]_vars

\* C10: during one call every object is entered at most once, parents is the
\* root together with the objects entered, and parents only grows.
C10_EnteredOnce ==
    /\ [](phase # "build" =>
            /\ \A e \in 1..Len(enterLog) : \A f \in 1..Len(enterLog) :
                   enterLog[e].node = enterLog[f].node => e = f
            /\ parents = {root} \cup {IF n = GetterV.id THEN GetterV ELSE Ref(n) : n \in Entered})
    /\ [][phase = "run" => parents \subseteq parents']_vars
\* an object reached by two pairs was entered and contributed an entry
C10_Witness ==
    /\ Done
    /\ \E n \in 1..used :
           /\ Cardinality(EdgesTo(Ref(n))) >= 2
           /\ \E j \in 1..Len(resLog) : resLog[j].node = n

\* ---------------------------------------------- claims on getFlatArray
\* in the nested arrays only an array is a container; null, numbers, strings
\* and plain objects are leaves
IsArray(v) == v.t = "object" /\ v.id >= 1
RECURSIVE LeavesFrom(_, _)
\* the leaves of array n from element j on, left to right and depth first
LeavesFrom(n, j) ==
    IF j > Len(arr[n]) THEN <<>>
    ELSE (IF IsArray(arr[n][j]) THEN LeavesFrom(arr[n][j].id, 1) ELSE <<arr[n][j]>>)
         \o LeavesFrom(n, j + 1)

\* C6: getFlatArray returns the empty sequence for a value that is not
\* iterable, and otherwise the leaves of the value from left to right and
\* depth first, every nested array expanded, nothing lost, repeated or out of
\* order.
C6_FlatIsLeavesInOrder ==
    fphase = "done" =>
        out = (IF IsArray(list) THEN LeavesFrom(list.id, 1) ELSE <<>>)
\* a nested array was expanded between two leaves of the outer array
C6_Witness ==
    /\ fphase = "done" /\ list = Arr(1)
    /\ Len(arr[1]) = 3 /\ arr[1][2] = Arr(2) /\ Len(arr[2]) = 1
    /\ out = <<arr[1][1], arr[2][1], arr[1][3]>>
    /\ arr[1][1] # arr[2][1] /\ arr[2][1] # arr[1][3]

\* ------------------------------------ claims on compareFieldsInObjects
KeysOf(o) == {o[j].k : j \in 1..Len(o)}
\* the value of key in base, undefined when base has no such key
BaseValue(key) == IF key \in KeysOf(obj1) THEN Get(obj1, key) ELSE UndefinedV

\* C4: the result has exactly the keys of updated whose value is not the same
\* value as base[key], each with the value of updated; NaN is the same value
\* as NaN, +0 and -0 are different values, an object is the same value only
\* as itself.  (Values are records in which NaN is one value, the two zeros
\* are two values and an object is its identity, so "the same value" is =.)
C4_DiffIsChangedFields ==
    dphase = "done" =>
        /\ KeysOf(diff) = {key \in KeysOf(obj2) : Get(obj2, key) # BaseValue(key)}
        /\ \A key \in KeysOf(diff) : Get(diff, key) = Get(obj2, key)
        /\ Len(diff) = Cardinality(KeysOf(diff))
\* NaN against NaN is left out, a zero of the other sign and another object
\* are kept
C4_Witness ==
    /\ dphase = "done"
    /\ \E key \in KeysOf(obj2) :
           Get(obj2, key) = NaNV /\ Get(obj1, key) = NaNV /\ key \notin KeysOf(diff)
    /\ \E key \in KeysOf(obj2) :
           \/ Get(obj2, key) = NegZeroV /\ Get(obj1, key) = PosZeroV /\ key \in KeysOf(diff)
           \/ Get(obj2, key) = Ref(2) /\ Get(obj1, key) = Ref(1) /\ key \in KeysOf(diff)

\* C5 as stated: a key of base alone is never in the result, and a key of
\* updated that base does not have is always in the result, whatever its value.
C5_NewKeyAlwaysIncluded ==
    dphase = "done" =>
        /\ KeysOf(diff) \subseteq KeysOf(obj2)
        /\ \A key \in KeysOf(obj2) \ KeysOf(obj1) : key \in KeysOf(diff)

\* C5 amended: a key of base alone is never in the result, and a key of
\* updated that base does not have is in the result exactly when updated's
\* value for it is not undefined.
C5_NewKeyIncludedUnlessUndefined ==
    dphase = "done" =>
        /\ KeysOf(diff) \subseteq KeysOf(obj2)
        /\ \A key \in KeysOf(obj2) \ KeysOf(obj1) :
               key \in KeysOf(diff) <=> Get(obj2, key) # UndefinedV
\* updated has a new key holding undefined, which is left out, and a new key
\* holding null, which is kept
C5_Witness ==
    /\ dphase = "done"
    /\ \E key \in KeysOf(obj2) \ KeysOf(obj1) :
           Get(obj2, key) = UndefinedV /\ key \notin KeysOf(diff)
    /\ \E key \in KeysOf(obj2) \ KeysOf(obj1) :
           Get(obj2, key) = NullV /\ key \in KeysOf(diff)

====
